---- MODULE Spec2Model ----
(***************************************************************************)
(* Model of the client-side session state machine of the AI Bill Analyzer  *)
(* (src/src/Analyzer.js): file acceptance, the analysis request, the chat  *)
(* transcript and the localStorage mirror of the last completed analysis,  *)
(* and of the sync, load and clear requests of the Dashboard               *)
(* (src/src/components/BillTable.js).                                      *)
(*                                                                         *)
(* Representation of JavaScript values.  Every value is a record with a   *)
(* tag t: Null, Undef, Str(text), Num(n), File(name), Arr(items) and      *)
(* objects (t = "obj").  A key that is absent from an object reads as     *)
(* Undef, as in JavaScript.  A text is a sequence of tokens: the tokens   *)
(* " ", "\n", "\t" are white space, every other token is a non-empty      *)
(* string without surrounding white space.  File names, typed questions    *)
(* and narratives are spelled one character per token, so that length,     *)
(* trim, split and startsWith are computed as the code computes them.      *)
(***************************************************************************)
EXTENDS Integers, Sequences, FiniteSets, TLC

\* state: the component state; storage: the item under STORAGE_KEY;
\* analysisCalls, chatCalls: the calls the services have not answered yet;
\* lastOp: the operation that led to this state; asked: the questions accepted
\* since the last successful analysis on this page (-1: none since then);
\* twin: the component state of the same session on a browser whose
\* localStorage throws on every access, given the same user actions and the
\* same service answers (Off where that session is not followed);
\* dashboard: the state of the Dashboard component; dashCalls: the requests of
\* the Dashboard that the backend has not answered yet
VARIABLES state, storage, analysisCalls, chatCalls, lastOp, asked, twin,
          dashboard, dashCalls

vars == <<state, storage, analysisCalls, chatCalls, lastOp, asked, twin,
          dashboard, dashCalls>>

(***************************************************************************)
(* Bounds of the model.                                                    *)
(***************************************************************************)
\* longest transcript from which a further question is still asked
MaxTranscript == 2
\* most service calls of one kind the network is allowed to hold
MaxOutstanding == 2
\* longest file name offered to the File Acceptance Gate on its own
MaxNameLen == 5

(***************************************************************************)
(* JavaScript values.                                                      *)
(***************************************************************************)
Null == [t |-> "null"]
Undef == [t |-> "undefined"]
Str(s) == [t |-> "str", s |-> s]
Num(n) == [t |-> "num", n |-> n]
Arr(items) == [t |-> "arr", items |-> items]
File(name) == [t |-> "file", name |-> name]

\* JavaScript truthiness: null, undefined, "" and 0 are falsy
Truthy(v) ==
    CASE v.t = "null" -> FALSE
      [] v.t = "undefined" -> FALSE
      [] v.t = "str" -> v.s # << >>
      [] v.t = "num" -> v.n # 0
      [] OTHER -> TRUE

\* a || b
Or(a, b) == IF Truthy(a) THEN a ELSE b

WhiteSpace == {" ", "\n", "\t"}

RECURSIVE TrimStart(_)
TrimStart(s) ==
    IF s = << >> THEN << >>
    ELSE IF Head(s) \in WhiteSpace THEN TrimStart(Tail(s)) ELSE s

RECURSIVE TrimEnd(_)
TrimEnd(s) ==
    IF s = << >> THEN << >>
    ELSE IF s[Len(s)] \in WhiteSpace THEN TrimEnd(SubSeq(s, 1, Len(s) - 1)) ELSE s

\* String.prototype.trim
Trim(s) == TrimEnd(TrimStart(s))

LowerOf ==
    [c \in {"A","B","C","E","L","O","R","S","V","X"} |->
        CASE c = "A" -> "a" [] c = "B" -> "b" [] c = "C" -> "c" [] c = "E" -> "e"
          [] c = "L" -> "l" [] c = "O" -> "o" [] c = "R" -> "r" [] c = "S" -> "s"
          [] c = "V" -> "v" [] c = "X" -> "x"]

\* String.prototype.toLowerCase
ToLowerCase(s) == [i \in 1..Len(s) |-> IF s[i] \in DOMAIN LowerOf THEN LowerOf[s[i]] ELSE s[i]]

\* s.split('.').pop(): the text after the final '.', the whole text without one
RECURSIVE LastSegment(_)
LastSegment(s) ==
    IF s = << >> THEN << >>
    ELSE IF s[Len(s)] = "." THEN << >>
    ELSE LastSegment(SubSeq(s, 1, Len(s) - 1)) \o <<s[Len(s)]>>

\* String.prototype.startsWith
StartsWith(s, p) == Len(s) >= Len(p) /\ SubSeq(s, 1, Len(p)) = p

RECURSIVE Repeat(_, _)
Repeat(c, n) == IF n = 0 THEN << >> ELSE <<c>> \o Repeat(c, n - 1)

(***************************************************************************)
(* The inputs of the model: files offered by the user, texts typed,        *)
(* payloads and failures of the two services.                              *)
(***************************************************************************)
FileA == File(<<"a", ".", "c", "s", "v">>)
FileB == File(<<"b", ".", "X", "L", "S">>)
FileC == File(<<"c", ".", "t", "x", "t">>)
Files == {FileA, FileB, FileC}

AreaNames == {<< >>, <<"N">>}

\* SUGGESTIONS[0]
Suggestion == <<"How many anomalies were detected?">>
\* texts typed into the question box
Drafts == {<< >>, <<" ">>, <<" ", "q", " ">>}

\* question texts that trim to empty
BlankArgs == {Str(<< >>), Str(<<" ">>)}

\* the argument of sendQuestion: a suggestion, nothing (Send button, Enter),
\* or a text that trims to empty
QuestionArgs == {Undef, Str(Suggestion)} \cup BlankArgs

Anomaly(i) == [t |-> "obj", house_id |-> Str(<<ToString(i)>>), severity |-> Str(<<"high">>)]

Anomalies(n) == [i \in 1..n |-> Anomaly(i)]

Category(count, mean, median) ==
    [t |-> "obj", count |-> Num(count), mean |-> Num(mean), median |-> Num(median)]

Summary ==
    [t |-> "obj", total_records |-> Num(120), anomalies_count |-> Num(7),
     residential |-> Category(100, 900, 850), commercial |-> Category(20, 4000, 3900)]

\* the minimum length of a narrative that is used as the seed
NarrativeMinLen == 50

Narrative == Str(Repeat("x", NarrativeMinLen + 1))

\* a payload with a usable narrative
PayloadNarrative(f) ==
    [t |-> "obj", filename |-> Str(f.name), analysis |-> Narrative,
     summary |-> Summary, anomalies |-> Arr(Anomalies(7))]

\* a payload without narrative: the response body has no analysis key
PayloadSummary(f) ==
    [t |-> "obj", filename |-> Str(f.name),
     summary |-> Summary, anomalies |-> Arr(Anomalies(7))]

\* what the Analysis Service may deliver as apiRes.data for file f; Null is a
\* malformed success (an empty body)
Payloads(f) == {PayloadNarrative(f), PayloadSummary(f), Null}

AllPayloads == UNION {Payloads(f) : f \in Files}

\* narratives on either side of each test of the seed selection; Undef stands
\* for a body without analysis key
SeedNarratives ==
    { Undef, Null, Str(<< >>),
      Str(Repeat("x", NarrativeMinLen)),
      Str(Repeat("x", NarrativeMinLen + 1)),
      Str(<<"e", "r", "r", "o", "r">> \o Repeat("x", NarrativeMinLen)),
      Str(<<"E", "R", "R", "O", "R">> \o Repeat("x", NarrativeMinLen)),
      Str(<<"E", "r", "r", "o", "r">>),
      Str(<<" ", "e", "r", "r", "o", "r">> \o Repeat("x", NarrativeMinLen)),
      Str(Repeat("x", NarrativeMinLen) \o <<"e", "r", "r", "o", "r">>) }

\* summaries with and without their fields; Undef stands for a body without
\* summary key
SeedSummaries ==
    { Undef, Null, [t |-> "obj"], Summary,
      [t |-> "obj", total_records |-> Num(120), commercial |-> Category(20, 4000, 3900)],
      [t |-> "obj", anomalies_count |-> Num(7),
       residential |-> [t |-> "obj", count |-> Num(100), median |-> Num(850)],
       commercial |-> [t |-> "obj", mean |-> Num(4000)]],
      [t |-> "obj", total_records |-> Num(0), anomalies_count |-> Num(0),
       residential |-> Category(0, 0, 0), commercial |-> Null] }

\* a response body for file f with narrative a and summary sm
SeedPayload(f, a, sm) ==
    LET keys == {"t", "filename"} \cup (IF a = Undef THEN {} ELSE {"analysis"})
                                  \cup (IF sm = Undef THEN {} ELSE {"summary"})
    IN  [k \in keys |->
            CASE k = "t" -> "obj"
              [] k = "filename" -> Str(f.name)
              [] k = "analysis" -> a
              [] k = "summary" -> sm]

SeedPayloads(f) == {SeedPayload(f, a, sm) : a \in SeedNarratives, sm \in SeedSummaries}

WellFormedPayload(d) == d.t = "obj"

ErrorData(details, error) == [t |-> "obj", details |-> details, error |-> error]

Failure(data, message) == [t |-> "error", data |-> data, message |-> message]

\* what the Analysis Service may reject with: err.response?.data and err.message
Failures ==
    { Failure(ErrorData(Str(<<"corrupt file">>), Str(<<"Analysis failed">>)),
              Str(<<"Request failed with status code 500">>)),
      Failure(ErrorData(Undef, Str(<<"No file uploaded">>)),
              Str(<<"Request failed with status code 400">>)),
      Failure(ErrorData(Str(<< >>), Str(<<"Analysis failed">>)),
              Str(<<"Request failed with status code 500">>)),
      Failure(Undef, Str(<<"Network Error">>)) }

Answer == Str(<<"7 anomalies were found.">>)

\* what the Chat Service may deliver as apiRes.data; Null is a malformed success
ChatPayloads == {[t |-> "obj", answer |-> Answer], Null}

TypeErrorMessage == Str(<<"Cannot read properties of null">>)

(***************************************************************************)
(* localStorage helpers.  A stored item is Null (no item), Garbage (a     *)
(* string that is not JSON) or the JSON text of a value.                   *)
(***************************************************************************)
NoItem == Null

Garbage == [t |-> "text", json |-> FALSE, value |-> Undef]

RECURSIVE JSONvalue(_), JSONitem(_)
\* the value that survives JSON.stringify: a key whose value is undefined is
\* dropped, and a File has no enumerable own property
JSONvalue(v) ==
    CASE v.t = "obj" ->
             [k \in {"t"} \cup {k \in DOMAIN v \ {"t"} : v[k].t # "undefined"} |->
                 IF k = "t" THEN "obj" ELSE JSONvalue(v[k])]
      [] v.t = "arr" -> Arr([i \in DOMAIN v.items |-> JSONitem(v.items[i])])
      [] v.t = "file" -> [t |-> "obj"]
      [] OTHER -> v

\* an array element: undefined becomes null; a message keeps its role and loses
\* a text that is undefined
JSONitem(x) ==
    IF "t" \in DOMAIN x
    THEN IF x.t = "undefined" THEN Null ELSE JSONvalue(x)
    ELSE [k \in {"role"} \cup (IF x.text.t = "undefined" THEN {} ELSE {"text"}) |->
             IF k = "role" THEN x.role ELSE JSONvalue(x.text)]

\* JSON.stringify: the text of a value, read back by JSON.parse as the value
\* that survived
JSONstringify(v) == [t |-> "text", json |-> TRUE, value |-> JSONvalue(v)]

\* a saveState that never replaces an item already stored
saveState_KeepsFirst(snapshot, sto) ==
    IF sto = NoItem THEN JSONstringify(snapshot) ELSE sto

\* localStorage.setItem(STORAGE_KEY, JSON.stringify(state)) inside try/catch
saveState(snapshot, sto) == JSONstringify(snapshot)

\* saved ? JSON.parse(saved) : null, with a parse failure caught
loadState(sto) ==
    IF sto.t = "null" THEN Null
    ELSE IF sto.json THEN sto.value ELSE Null

\* a clearState that leaves the item in place
clearState_KeepsItem(sto) == sto

\* localStorage.removeItem(STORAGE_KEY)
clearState(sto) == NoItem

\* saved?.key
Field(saved, key) ==
    IF saved.t = "obj" /\ key \in DOMAIN saved THEN saved[key] ELSE Undef

(***************************************************************************)
(* The component state.                                                    *)
(***************************************************************************)
\* useState initialiser
InitialState(saved) ==
    [file |-> Null,
     areaName |-> Or(Field(saved, "areaName"), Str(<< >>)),
     fileName |-> Or(Field(saved, "fileName"), Null),
     analyzing |-> FALSE,
     result |-> Or(Field(saved, "result"), Null),
     error |-> Null,
     messages |-> Or(Field(saved, "messages"), Arr(<< >>)).items,
     question |-> Str(<< >>),
     chatLoading |-> FALSE]

\* the object the persistence effect hands to saveState
Snapshot(s) ==
    [t |-> "obj", areaName |-> s.areaName, fileName |-> s.fileName,
     result |-> s.result, messages |-> Arr(s.messages)]

\* a dependency list without the transcript
Deps_NoMessages(s) == <<s.result, s.areaName, s.fileName>>

\* the dependency list of the persistence effect
Deps(s) == <<s.result, s.messages, s.areaName, s.fileName>>

\* a persistence effect that writes whether or not a result is loaded
PersistEffect_NoResultTest(old, new, sto) ==
    IF Deps(old) # Deps(new) THEN saveState(Snapshot(new), sto) ELSE sto

\* a persistence effect that removes the item when no result is loaded
PersistEffect_ClearsWithoutResult(old, new, sto) ==
    IF Deps(old) = Deps(new) THEN sto
    ELSE IF Truthy(new.result) THEN saveState(Snapshot(new), sto) ELSE NoItem

\* a persistence effect that also runs, and writes, when the error changes
PersistEffect_WritesOnError(old, new, sto) ==
    IF (Deps(old) # Deps(new) /\ Truthy(new.result)) \/ old.error # new.error
    THEN saveState(Snapshot(new), sto)
    ELSE sto

\* the persistence effect after the render that takes old to new
PersistEffect(old, new, sto) ==
    IF Deps(old) # Deps(new) /\ Truthy(new.result)
    THEN saveState(Snapshot(new), sto)
    ELSE sto

\* the persistence effect after the first render
MountEffect(s, sto) == IF Truthy(s.result) THEN saveState(Snapshot(s), sto) ELSE sto

Off == [t |-> "off"]

\* a failed write that reports the failure to the user
FailedWriteState_SetsError(s) == [s EXCEPT !.error = Str(<<"Failed to save state">>)]

\* saveState when setItem throws: catch (e) { console.error(...) }
FailedWriteState(s) == s

\* clearState when removeItem throws: catch (e) { console.error(...) }
FailedClearState(s) == s

\* the persistence effect on the browser whose storage fails
FailingEffect(old, new) ==
    IF Deps(old) # Deps(new) /\ Truthy(new.result) THEN FailedWriteState(new) ELSE new

\* loadState when getItem throws: catch { return null }
FailedLoad == Null

\* the session phase the state presents
Phase(s) ==
    IF s.analyzing THEN "analyzing"
    ELSE IF Truthy(s.error) THEN "errored"
    ELSE IF Truthy(s.result) THEN "ready"
    ELSE "idle"

\* the useState initialisers of the Dashboard
DashboardInitial ==
    [bills |-> Arr(<< >>), stats |-> Null, loading |-> FALSE, syncing |-> FALSE,
     hasSynced |-> FALSE]

\* items that may sit in storage when the page is first opened
InitialStorage ==
    { NoItem, Garbage, JSONstringify(Num(5)),
      JSONstringify([t |-> "obj", result |-> PayloadSummary(FileA)]),
      JSONstringify([t |-> "obj", messages |-> Arr(<<[role |-> "ai", text |-> Narrative]>>)]) }

Init ==
    \E sto \in InitialStorage :
        /\ state = InitialState(loadState(sto))
        /\ storage = MountEffect(InitialState(loadState(sto)), sto)
        /\ analysisCalls = << >>
        /\ chatCalls = << >>
        /\ lastOp = "mount"
        /\ asked = -1
        /\ twin = Off
        /\ dashboard = DashboardInitial
        /\ dashCalls = << >>

\* the page is reloaded: outstanding calls are dropped with the old page
Reload ==
    /\ UNCHANGED <<dashboard, dashCalls>>
    /\ twin' = IF twin = Off THEN Off ELSE InitialState(FailedLoad)
    /\ state' = InitialState(loadState(storage))
    /\ storage' = MountEffect(InitialState(loadState(storage)), storage)
    /\ analysisCalls' = << >>
    /\ chatCalls' = << >>
    /\ lastOp' = "mount"
    /\ asked' = -1

(***************************************************************************)
(* File handlers.                                                          *)
(***************************************************************************)
AllowedExtensions == {<<"x","l","s","x">>, <<"x","l","s">>, <<"c","s","v">>}

RejectMessage == Str(<<"Only .xlsx, .xls, or .csv files are allowed.">>)

\* the File Acceptance Gate: f.name.split('.').pop().toLowerCase() is allowed
Accepts(f) == ToLowerCase(LastSegment(f.name)) \in AllowedExtensions

\* an acceptFile that starts a new transcript with the new candidate
acceptFileState_ClearsTranscript(s, f) ==
    IF ~Truthy(f) THEN s
    ELSE IF ~Accepts(f) THEN [s EXCEPT !.error = RejectMessage]
    ELSE [s EXCEPT !.file = f, !.fileName = Str(f.name), !.error = Null,
                   !.messages = << >>]

\* acceptFile(f)
acceptFileState(s, f) ==
    IF ~Truthy(f) THEN s
    ELSE IF ~Accepts(f) THEN [s EXCEPT !.error = RejectMessage]
    ELSE [s EXCEPT !.file = f, !.fileName = Str(f.name), !.error = Null]

\* removeFile
removeFileState(s) == [s EXCEPT !.file = Null, !.fileName = Null]

\* clearAnalysis, the state update
clearAnalysisState(s) ==
    [s EXCEPT !.result = Null, !.messages = << >>, !.error = Null,
              !.file = Null, !.fileName = Null, !.areaName = Str(<< >>)]

\* the drop zone, the area input and the Analyze button are rendered
DropzoneRendered(s) == ~Truthy(s.result)

\* the New Analysis button is rendered
NewAnalysisRendered(s) == Truthy(s.result)

\* the Analyze button without the analyzing test of its disabled attribute
AnalyzeEnabled_NotDisabledWhileAnalyzing(s) == DropzoneRendered(s) /\ Truthy(s.file)

\* the Analyze button is rendered and not disabled
AnalyzeEnabled(s) == DropzoneRendered(s) /\ ~(~Truthy(s.file) \/ s.analyzing)

\* the user picks or drops file f on the drop zone
acceptFile(f) ==
    /\ UNCHANGED <<dashboard, dashCalls>>
    /\ twin' = IF twin = Off THEN Off
               ELSE IF DropzoneRendered(twin)
                    THEN FailingEffect(twin, acceptFileState(twin, f)) ELSE twin
    /\ DropzoneRendered(state)
    /\ state' = acceptFileState(state, f)
    /\ storage' = PersistEffect(state, state', storage)
    /\ lastOp' = IF Accepts(f) THEN "acceptFile" ELSE "acceptFile.reject"
    /\ UNCHANGED asked
    /\ UNCHANGED <<analysisCalls, chatCalls>>

\* the user clicks the remove button of the selected file
removeFile ==
    /\ UNCHANGED <<dashboard, dashCalls>>
    /\ twin' = IF twin = Off THEN Off
               ELSE IF DropzoneRendered(twin) /\ Truthy(twin.file)
                    THEN FailingEffect(twin, removeFileState(twin)) ELSE twin
    /\ DropzoneRendered(state) /\ Truthy(state.file)
    /\ state' = removeFileState(state)
    /\ storage' = PersistEffect(state, state', storage)
    /\ lastOp' = "removeFile"
    /\ UNCHANGED asked
    /\ UNCHANGED <<analysisCalls, chatCalls>>

\* the user edits the area input
typeArea(a) ==
    /\ UNCHANGED <<dashboard, dashCalls>>
    /\ twin' = IF twin = Off THEN Off
               ELSE IF DropzoneRendered(twin)
                    THEN FailingEffect(twin, [twin EXCEPT !.areaName = Str(a)]) ELSE twin
    /\ DropzoneRendered(state)
    /\ state' = [state EXCEPT !.areaName = Str(a)]
    /\ storage' = PersistEffect(state, state', storage)
    /\ lastOp' = "typeArea"
    /\ UNCHANGED asked
    /\ UNCHANGED <<analysisCalls, chatCalls>>

\* reset: the user goes for New Analysis; the button exists only with a result
clearAnalysis ==
    /\ UNCHANGED <<dashboard, dashCalls>>
    /\ twin' = IF twin = Off THEN Off
               ELSE IF NewAnalysisRendered(twin)
                    THEN FailingEffect(twin, FailedClearState(clearAnalysisState(twin)))
                    ELSE twin
    /\ IF NewAnalysisRendered(state)
       THEN /\ state' = clearAnalysisState(state)
            /\ storage' = PersistEffect(state, state', clearState(storage))
            /\ lastOp' = "clearAnalysis"
            /\ asked' = -1
       ELSE /\ UNCHANGED <<state, storage>>
            /\ lastOp' = "clearAnalysis.hidden"
            /\ UNCHANGED asked
    /\ UNCHANGED <<analysisCalls, chatCalls>>

(***************************************************************************)
(* Analysis.                                                               *)
(***************************************************************************)
EmptyObject == [t |-> "obj"]

\* `${v || 0}`
NumText(v) == ToString(Or(v, Num(0)).n)

\* (v || 0).toFixed(2)
ToFixed2(v) == <<ToString(Or(v, Num(0)).n), ".00">>

\* `${data.filename}`
FilenameText(data) ==
    IF Field(data, "filename").t = "str" THEN Field(data, "filename").s ELSE <<"undefined">>

\* the fixed-template summary (the dash and the rupee sign are spelled in ASCII)
TemplateText(data) ==
    LET s == Or(Field(data, "summary"), EmptyObject)
        res == Or(Field(s, "residential"), EmptyObject)
        com == Or(Field(s, "commercial"), EmptyObject)
    IN  <<"Analysis Complete", "\n", "\n", "Analyzed", " ">> \o FilenameText(data)
        \o <<" ", "-", " ", NumText(Field(s, "total_records")), " ", "total records.", "\n", "\n">>
        \o <<"Residential:", " ", NumText(Field(res, "count")), " ", "houses  |  Avg Rs">>
        \o ToFixed2(Field(res, "mean")) \o <<"  |  Median Rs">> \o ToFixed2(Field(res, "median"))
        \o <<"\n", "Commercial:", " ", NumText(Field(com, "count")), " ", "properties  |  Avg Rs">>
        \o ToFixed2(Field(com, "mean"))
        \o <<"\n", "Anomalies:", " ", NumText(Field(s, "anomalies_count")), " ", "detected", "\n", "\n">>
        \o <<"Ask me anything about the data!">>

ErrorPrefix == <<"e", "r", "r", "o", "r">>

\* a seed selection that takes a narrative of the minimum length as well
UsesNarrative_AtLeastMin(data) ==
    LET aiText == Or(Field(data, "analysis"), Str(<< >>))
    IN  /\ Truthy(aiText)
        /\ aiText.t = "str"
        /\ Len(aiText.s) >= NarrativeMinLen
        /\ ~StartsWith(ToLowerCase(aiText.s), ErrorPrefix)

\* the narrative is used verbatim
UsesNarrative(data) ==
    LET aiText == Or(Field(data, "analysis"), Str(<< >>))
    IN  /\ Truthy(aiText)
        /\ aiText.t = "str"
        /\ Len(aiText.s) > NarrativeMinLen
        /\ ~StartsWith(ToLowerCase(aiText.s), ErrorPrefix)

\* initialMessages
InitialMessages(data) ==
    IF UsesNarrative(data)
    THEN <<[role |-> "ai", text |-> Field(data, "analysis")]>>
    ELSE <<[role |-> "ai", text |-> Str(TemplateText(data))]>>

\* the detail with the error field preferred to the details field
ErrorDetail_ErrorFirst(err) ==
    Or(Or(Field(err.data, "error"), Field(err.data, "details")), err.message)

\* err.response?.data?.details || err.response?.data?.error || err.message
ErrorDetail(err) ==
    Or(Or(Field(err.data, "details"), Field(err.data, "error")), err.message)

\* reading a property of a null or undefined body
TypeError == Failure(Undef, TypeErrorMessage)

\* handleAnalyze, the update before the call
analyzeStartState(s) ==
    [s EXCEPT !.analyzing = TRUE, !.error = Null, !.result = Null, !.messages = << >>]

\* a catch block that reports the error and leaves the spinner on
analyzeCatchState_KeepsAnalyzing(s, err) == [s EXCEPT !.error = ErrorDetail(err)]

\* handleAnalyze, the catch block
analyzeCatchState(s, err) == [s EXCEPT !.error = ErrorDetail(err), !.analyzing = FALSE]

\* handleAnalyze, after the call has resolved with apiRes.data = data
analyzeSuccessState(s, data) ==
    IF data.t \in {"null", "undefined"} THEN analyzeCatchState(s, TypeError)
    ELSE [s EXCEPT !.result = data, !.messages = InitialMessages(data), !.analyzing = FALSE]

\* the user clicks Analyze
handleAnalyze ==
    /\ UNCHANGED <<dashboard, dashCalls>>
    /\ twin' = IF twin = Off THEN Off
               ELSE IF AnalyzeEnabled(twin) /\ Truthy(twin.file)
                    THEN FailingEffect(twin, analyzeStartState(twin)) ELSE twin
    /\ Len(analysisCalls) < MaxOutstanding
    /\ IF AnalyzeEnabled(state) /\ Truthy(state.file)
       THEN /\ state' = analyzeStartState(state)
            /\ analysisCalls' = Append(analysisCalls, [file |-> state.file, areaName |-> state.areaName])
            /\ lastOp' = "handleAnalyze"
            /\ asked' = -1
       ELSE /\ UNCHANGED <<state, analysisCalls>>
            /\ lastOp' = "handleAnalyze.blocked"
            /\ UNCHANGED asked
    /\ storage' = PersistEffect(state, state', storage)
    /\ UNCHANGED chatCalls

Without(calls, i) == SubSeq(calls, 1, i - 1) \o SubSeq(calls, i + 1, Len(calls))

\* the Analysis Service resolves call i with apiRes.data = data
analyzeResolve(i, data) ==
    /\ UNCHANGED <<dashboard, dashCalls>>
    /\ twin' = IF twin = Off THEN Off
               ELSE FailingEffect(twin, analyzeSuccessState(twin, data))
    /\ i \in DOMAIN analysisCalls
    /\ data \in Payloads(analysisCalls[i].file) \cup SeedPayloads(analysisCalls[i].file)
    /\ state' = analyzeSuccessState(state, data)
    /\ analysisCalls' = Without(analysisCalls, i)
    /\ storage' = PersistEffect(state, state', storage)
    /\ lastOp' = "analyzeResolve"
    /\ asked' = IF Truthy(state'.result) THEN 0 ELSE asked
    /\ UNCHANGED chatCalls

\* the Analysis Service rejects call i with err
analyzeReject(i, err) ==
    /\ UNCHANGED <<dashboard, dashCalls>>
    /\ twin' = IF twin = Off THEN Off
               ELSE FailingEffect(twin, analyzeCatchState(twin, err))
    /\ i \in DOMAIN analysisCalls
    /\ state' = analyzeCatchState(state, err)
    /\ analysisCalls' = Without(analysisCalls, i)
    /\ storage' = PersistEffect(state, state', storage)
    /\ lastOp' = "analyzeReject"
    /\ UNCHANGED asked
    /\ UNCHANGED chatCalls

(***************************************************************************)
(* Chat.                                                                   *)
(***************************************************************************)
FallbackAnswer == Str(<<"Failed to get a response. Please try again.">>)

\* (q || state.question).trim()
QuestionText(s, q) == Trim(Or(q, s.question).s)

\* the early return without the chatLoading test
sendQuestionReturns_NoLoadingTest(s, text) == text = << >> \/ ~Truthy(s.result)

\* the early return without the result test
sendQuestionReturns_NoResultTest(s, text) == text = << >> \/ s.chatLoading

\* the early return of sendQuestion
sendQuestionReturns(s, text) == text = << >> \/ ~Truthy(s.result) \/ s.chatLoading

\* sendQuestion, the update before the call
sendQuestionState(s, text) ==
    [s EXCEPT !.messages = Append(s.messages, [role |-> "user", text |-> Str(text)]),
              !.question = Str(<< >>),
              !.chatLoading = TRUE]

\* sendQuestion, the catch block; call holds the text and the state.messages
\* that the handler closed over when it was invoked
chatCatchState(s, call) ==
    [s EXCEPT !.messages = call.messages \o <<[role |-> "user", text |-> Str(call.text)],
                                              [role |-> "ai", text |-> FallbackAnswer]>>,
              !.chatLoading = FALSE]

\* sendQuestion, after the call has resolved with apiRes.data = data
chatSuccessState(s, call, data) ==
    IF data.t \in {"null", "undefined"} THEN chatCatchState(s, call)
    ELSE [s EXCEPT !.messages = call.messages \o <<[role |-> "user", text |-> Str(call.text)],
                                                   [role |-> "ai", text |-> Field(data, "answer")]>>,
                   !.chatLoading = FALSE]

\* the question box is rendered and not disabled
QuestionBoxEnabled(s) == Truthy(s.result) /\ ~s.chatLoading

\* the user edits the question box
typeQuestion(d) ==
    /\ UNCHANGED <<dashboard, dashCalls>>
    /\ twin' = IF twin = Off THEN Off
               ELSE IF QuestionBoxEnabled(twin)
                    THEN FailingEffect(twin, [twin EXCEPT !.question = Str(d)]) ELSE twin
    /\ QuestionBoxEnabled(state)
    /\ state' = [state EXCEPT !.question = Str(d)]
    /\ storage' = PersistEffect(state, state', storage)
    /\ lastOp' = "typeQuestion"
    /\ UNCHANGED asked
    /\ UNCHANGED <<analysisCalls, chatCalls>>

\* ask: sendQuestion(q) is invoked
sendQuestion(q) ==
    /\ UNCHANGED <<dashboard, dashCalls>>
    /\ twin' = IF twin = Off THEN Off
               ELSE IF sendQuestionReturns(twin, QuestionText(twin, q)) THEN twin
               ELSE FailingEffect(twin, sendQuestionState(twin, QuestionText(twin, q)))
    /\ Len(state.messages) <= MaxTranscript
    /\ Len(chatCalls) < MaxOutstanding
    /\ IF sendQuestionReturns(state, QuestionText(state, q))
       THEN /\ UNCHANGED <<state, chatCalls>>
            /\ lastOp' = "sendQuestion.return"
            /\ UNCHANGED asked
       ELSE /\ state' = sendQuestionState(state, QuestionText(state, q))
            /\ chatCalls' = Append(chatCalls, [text |-> QuestionText(state, q),
                                               result |-> state.result,
                                               messages |-> state.messages])
            /\ lastOp' = "sendQuestion"
            /\ asked' = IF asked >= 0 THEN asked + 1 ELSE asked
    /\ storage' = PersistEffect(state, state', storage)
    /\ UNCHANGED analysisCalls

\* the Chat Service resolves call i with apiRes.data = data.  The twin asked
\* the same question in the same step; the text and transcript its handler
\* closed over are those of the call as long as the two sessions agree.
chatResolve(i, data) ==
    /\ UNCHANGED <<dashboard, dashCalls>>
    /\ i \in DOMAIN chatCalls
    /\ twin' = IF twin = Off THEN Off
               ELSE FailingEffect(twin, chatSuccessState(twin, chatCalls[i], data))
    /\ state' = chatSuccessState(state, chatCalls[i], data)
    /\ chatCalls' = Without(chatCalls, i)
    /\ storage' = PersistEffect(state, state', storage)
    /\ lastOp' = "chatResolve"
    /\ UNCHANGED asked
    /\ UNCHANGED analysisCalls

\* the Chat Service rejects call i
chatReject(i) ==
    /\ UNCHANGED <<dashboard, dashCalls>>
    /\ i \in DOMAIN chatCalls
    /\ twin' = IF twin = Off THEN Off
               ELSE FailingEffect(twin, chatCatchState(twin, chatCalls[i]))
    /\ state' = chatCatchState(state, chatCalls[i])
    /\ chatCalls' = Without(chatCalls, i)
    /\ storage' = PersistEffect(state, state', storage)
    /\ lastOp' = "chatReject"
    /\ UNCHANGED asked
    /\ UNCHANGED analysisCalls

(***************************************************************************)
(* Properties.                                                             *)
(***************************************************************************)
IsAnalyzeStep == lastOp' \in {"handleAnalyze", "handleAnalyze.blocked"}

IsAskStep == lastOp' \in {"sendQuestion", "sendQuestion.return"}

NothingHappens == UNCHANGED <<state, storage, analysisCalls, chatCalls>>

\* C1: runAnalysis without a candidate issues no call and changes nothing; an
\* invocation while an analysis call is outstanding is rejected; at most one
\* analysis call is ever outstanding.
C1_SingleAnalysisCall ==
    /\ [](Len(analysisCalls) <= 1)
    /\ [][IsAnalyzeStep /\ (~Truthy(state.file) \/ state.analyzing \/ analysisCalls # << >>)
             => NothingHappens]_vars

\* a second Analyze click was rejected while the first call is outstanding
C1_Witness ==
    /\ lastOp = "handleAnalyze.blocked"
    /\ state.analyzing
    /\ Truthy(state.file)
    /\ Len(analysisCalls) = 1

\* C2: ask while a question is pending is a no-op; at most one chat call is
\* outstanding, and a pending question means exactly one outstanding chat call.
C2_SingleChatCall ==
    /\ [](Len(chatCalls) <= 1 /\ (state.chatLoading => Len(chatCalls) = 1))
    /\ [][IsAskStep /\ state.chatLoading => NothingHappens]_vars

\* an ask was rejected on a loaded result while a question is pending
C2_Witness ==
    /\ lastOp = "sendQuestion.return"
    /\ state.chatLoading
    /\ Truthy(state.result)
    /\ Len(chatCalls) = 1

IsPrefix(a, b) == Len(a) <= Len(b) /\ SubSeq(b, 1, Len(a)) = a

IsChatResponseStep == lastOp' \in {"chatResolve", "chatReject"}

\* C3: apart from a page load, every step leaves the transcript unchanged,
\* extends it at the end, or clears it as a whole (reset, start of an
\* analysis); a chat response leaves the question's user message directly
\* before its assistant reply at the end of the transcript.
C3_AppendOnlyTranscript ==
    [][lastOp' # "mount" =>
          /\ \/ IsPrefix(state.messages, state'.messages)
             \/ state'.messages = << >> /\ lastOp' \in {"clearAnalysis", "handleAnalyze"}
          /\ IsChatResponseStep =>
                /\ state'.messages[Len(state'.messages) - 1].role = "user"
                /\ state'.messages[Len(state'.messages)].role = "ai"]_vars

\* C4: once every chat call has been answered, a transcript seeded by an
\* analysis holds the seed followed by two messages per accepted question,
\* alternating user, assistant.
C4_TwoMessagesPerQuestion ==
    (asked >= 0 /\ chatCalls = << >>) =>
        /\ Len(state.messages) = 1 + 2 * asked
        /\ \A k \in DOMAIN state.messages :
              state.messages[k].role = IF k % 2 = 1 THEN "ai" ELSE "user"

\* C5: while analyzing (flag set or call outstanding) there is no result, the
\* ready phase has a result, and ask without a result is a no-op.
C5_NoResultWhileAnalyzing ==
    /\ []((state.analyzing \/ analysisCalls # << >>) => state.result = Null)
    /\ [](Phase(state) = "ready" => state.result # Null)
    /\ [][IsAskStep /\ ~Truthy(state.result) => NothingHappens]_vars

\* a non-blank question was rejected while the analysis call is outstanding
C5_Witness ==
    /\ lastOp = "sendQuestion.return"
    /\ state.analyzing
    /\ Len(analysisCalls) = 1
    /\ ~state.chatLoading
    /\ Trim(state.question.s) # << >>

\* C6: a successful analysis call (with a payload object) ends in phase ready
\* with exactly the returned payload as result, no error and a transcript of
\* one assistant message.
C6_ReadyAfterSuccess ==
    [][\A i \in 1..MaxOutstanding, data \in AllPayloads :
          analyzeResolve(i, data) /\ WellFormedPayload(data) =>
              /\ Phase(state') = "ready"
              /\ state'.result = data
              /\ state'.error = Null
              /\ Len(state'.messages) = 1
              /\ state'.messages[1].role = "ai"]_vars

IsResetStep == lastOp' \in {"clearAnalysis", "clearAnalysis.hidden"}

\* the state reset() is to yield
ResetDone(s, sto) ==
    /\ Phase(s) = "idle"
    /\ s.file = Null /\ s.fileName = Null
    /\ s.result = Null
    /\ s.messages = << >>
    /\ sto = NoItem

Present(v) == v.t = "str" /\ v.s # << >>

\* details when present, otherwise error when present, otherwise the message
ExpectedError(err) ==
    IF Present(Field(err.data, "details")) THEN Field(err.data, "details")
    ELSE IF Present(Field(err.data, "error")) THEN Field(err.data, "error")
    ELSE err.message

\* C8: a failed analysis call ends in phase errored without result, leaves
\* the candidate as it is (as does the start of the call), and stores the
\* details field when present, else the error field, else the message.
C8_ErroredAfterFailure ==
    [][/\ \A i \in 1..MaxOutstanding, err \in Failures :
             analyzeReject(i, err) =>
                 /\ Phase(state') = "errored"
                 /\ ~state'.analyzing
                 /\ state'.result = Null
                 /\ state'.file = state.file /\ state'.fileName = state.fileName
                 /\ state'.error = ExpectedError(err)
       /\ lastOp' = "handleAnalyze" =>
             state'.file = state.file /\ state'.fileName = state.fileName]_vars

\* the call failed with details "corrupt file" and the candidate is still there
C8_Witness ==
    /\ lastOp = "analyzeReject"
    /\ Phase(state) = "errored"
    /\ state.error = Str(<<"corrupt file">>)
    /\ Truthy(state.file)
    /\ state.result = Null

\* C9: a failed chat call appends the fixed fallback answer after the
\* question's user message, clears the pending flag, leaves error and phase
\* alone and keeps every earlier message.
C9_FallbackAppended ==
    [][\A i \in 1..MaxOutstanding :
          chatReject(i) =>
              /\ state.messages # << >>
              /\ state.messages[Len(state.messages)] =
                     [role |-> "user", text |-> Str(chatCalls[i].text)]
              /\ state'.messages =
                     Append(state.messages, [role |-> "ai", text |-> FallbackAnswer])
              /\ ~state'.chatLoading
              /\ state'.error = state.error
              /\ Phase(state') = Phase(state)]_vars

\* the transcript of the persisted snapshot
PersistedTranscript(sto) == Field(loadState(sto), "messages")

\* C10: an accepted ask appends the trimmed question as user message and sets
\* the pending flag; a successful answer appends one assistant message with
\* the answer, clears the flag, and the persisted transcript is the new one.
C10_AskThenAnswer ==
    [][/\ lastOp' = "sendQuestion" =>
             /\ \E q \in QuestionArgs :
                   state'.messages =
                       Append(state.messages,
                              [role |-> "user", text |-> Str(Trim(Or(q, state.question).s))])
             /\ state'.chatLoading
       /\ \A i \in 1..MaxOutstanding, data \in ChatPayloads :
             chatResolve(i, data) /\ data.t = "obj" =>
                 /\ state'.messages =
                        Append(state.messages, [role |-> "ai", text |-> data.answer])
                 /\ ~state'.chatLoading
                 /\ PersistedTranscript(storage') = Arr(state'.messages)]_vars

\* C11: ask of the empty text and of a white-space-only text is a no-op in
\* every state, whatever the question box holds: state, storage and the
\* outstanding calls are unchanged.
C11_BlankAskIsNoOp ==
    [][\A q \in BlankArgs : sendQuestion(q) => NothingHappens]_vars
(***************************************************************************)
(* The File Acceptance Gate on its own: a fresh page on which the user     *)
(* selects files of every name up to MaxNameLen characters.                *)
(***************************************************************************)
GateAlphabet == {"c", "C", "s", "S", "v", ".", "a"}

GateNames == UNION {[1..k -> GateAlphabet] : k \in 0..MaxNameLen}

GateInit ==
    /\ state = InitialState(loadState(NoItem))
    /\ storage = NoItem
    /\ analysisCalls = << >>
    /\ chatCalls = << >>
    /\ lastOp = "mount"
    /\ asked = -1
    /\ twin = Off
    /\ dashboard = DashboardInitial
    /\ dashCalls = << >>

GateNext ==
    \/ \E n \in GateNames : acceptFile(File(n))
    \/ removeFile
    \/ \E a \in AreaNames : typeArea(a)

GateSpec == GateInit /\ [][GateNext]_vars

\* the rule of the gate as specified: the name has a '.', and the text after
\* its final '.', in lower case, is xlsx, xls or csv
ListedExtension(name) ==
    \E i \in 1..Len(name) :
        /\ name[i] = "."
        /\ \A j \in (i + 1)..Len(name) : name[j] # "."
        /\ ToLowerCase(SubSeq(name, i + 1, Len(name))) \in AllowedExtensions

IsSelectStep == lastOp' \in {"acceptFile", "acceptFile.reject"}

\* C12: the gate accepts a name if and only if it has a '.' and a listed
\* extension after the final '.': every candidate it lets in has one, and
\* every name that has one is accepted.
C12_GateAcceptsListedExtensions ==
    /\ Truthy(state.file) => ListedExtension(state.file.name)
    /\ \A n \in GateNames : ListedExtension(n) => Accepts(File(n))

\* C13: a file without a listed extension is rejected and only the error is
\* set: every selectFile step either changes nothing but the error message,
\* or makes a file with a listed extension the candidate.
C13_RejectLeavesCandidate ==
    [][IsSelectStep =>
          \/ state' = [state EXCEPT !.error = RejectMessage] /\ storage' = storage
          \/ Truthy(state'.file) /\ ListedExtension(state'.file.name)]_vars
\* a stored document that holds a result and a transcript
WellFormedSnapshot(saved) ==
    /\ Field(saved, "result").t = "obj"
    /\ Field(saved, "messages").t = "arr"

\* what a startup that finds item sto in storage is specified to produce
StartsAsSpecified(sto, s) ==
    /\ s.error = Null
    /\ IF WellFormedSnapshot(loadState(sto))
       THEN /\ Phase(s) = "ready"
            /\ s.result = loadState(sto).result
            /\ s.messages = loadState(sto).messages.items
       ELSE /\ Phase(s) = "idle"
            /\ s.result = Null
            /\ s.messages = << >>

\* C14: a startup restores a well-formed stored snapshot into phase ready with
\* that result and transcript, and starts idle with no result, an empty
\* transcript and no error for every other content of storage.
C14_StartupRestoresOrStartsIdle ==
    [][lastOp' = "mount" => StartsAsSpecified(storage, state')]_vars
\* the stored snapshot holds the fileName, result and transcript of state s
Mirrors(s, sto) ==
    /\ loadState(sto).t = "obj"
    /\ Field(loadState(sto), "fileName") = s.fileName
    /\ Field(loadState(sto), "result") = s.result
    /\ Field(loadState(sto), "messages") = Arr(s.messages)

\* a reload that finds item sto restores the result and transcript of state s
ReloadRestores(s, sto) ==
    /\ InitialState(loadState(sto)).result = s.result
    /\ InitialState(loadState(sto)).messages = s.messages

\* C15: whenever a result is loaded, so after every successful analysis and
\* every chat exchange the persistence effect has written, the stored snapshot
\* holds the fileName, result and transcript of the state in memory, and a
\* reload restores that result and transcript.
C15_StorageMirrorsSession ==
    Truthy(state.result) => Mirrors(state, storage) /\ ReloadRestores(state, storage)

C15_Witness ==
    /\ lastOp = "chatResolve"
    /\ Truthy(state.result)
    /\ Len(state.messages) = 3
    /\ Mirrors(state, storage)

\* C16: no step that is taken while an analysis is outstanding, and not the
\* step that starts it, writes to storage.
C16_NoSaveWhileAnalyzing ==
    [][state'.analyzing => storage' = storage]_vars

C16_Witness ==
    /\ lastOp = "chatResolve"
    /\ state.analyzing
    /\ state.messages # << >>
    /\ storage = NoItem

\* C17: only reset takes storage from present to absent.
C17_OnlyResetRemoves ==
    [][storage # NoItem /\ storage' = NoItem => lastOp' = "clearAnalysis"]_vars

C17_Witness ==
    /\ lastOp = "clearAnalysis"
    /\ storage = NoItem
    /\ ~state.chatLoading
    /\ state.result = Null

\* C18: load after save returns the saved snapshot field for field, whatever
\* item the save found under the key: a later save overwrites an earlier one.
C18_RoundTrip ==
    Truthy(state.result) =>
        \A sto \in InitialStorage \cup {storage} :
            loadState(saveState(Snapshot(state), sto)) = Snapshot(state)

C18_Witness ==
    /\ lastOp = "sendQuestion"
    /\ Truthy(state.result)
    /\ loadState(storage) = Snapshot(state)
    /\ Len(state.messages) = 2

\* C19: selectFile, accepted or rejected, and removeFile leave result and
\* transcript as they are, in the states where the page offers them and in
\* every other state as well; removeFile changes only the candidate.
C19_FileStepsKeepResult ==
    /\ [](/\ \A f \in Files :
                /\ acceptFileState(state, f).result = state.result
                /\ acceptFileState(state, f).messages = state.messages
          /\ removeFileState(state) = [state EXCEPT !.file = Null, !.fileName = Null])
    /\ [][lastOp' \in {"acceptFile", "acceptFile.reject", "removeFile"} =>
              /\ state'.result = state.result
              /\ state'.messages = state.messages]_vars

C19_Witness ==
    /\ lastOp = "acceptFile"
    /\ state.messages # << >>
    /\ Truthy(state.file)
\* C23: after a successful analysis the candidate is gone.
C23_CandidateGoneAfterSuccess ==
    lastOp = "analyzeResolve" /\ Truthy(state.result) => state.file = Null

\* C24: without a result the transcript stays empty: a chat call that
\* resolves or rejects after reset, or after an analysis has started, leaves
\* the transcript of the session without result empty.
C24_NoTranscriptWithoutResult ==
    [][IsChatResponseStep /\ ~Truthy(state'.result) => state'.messages = << >>]_vars

\* C25: the reply to a question that was asked about an earlier result changes
\* neither the transcript of the current result nor the persisted transcript.
C25_LateReplyKeepsNewTranscript ==
    [][\A i \in DOMAIN chatCalls :
          /\ IsChatResponseStep
          /\ chatCalls' = Without(chatCalls, i)
          /\ Truthy(state.result)
          /\ chatCalls[i].result # state.result
          => /\ state'.messages = state.messages
             /\ PersistedTranscript(storage') = PersistedTranscript(storage)]_vars

\* C26: the stored transcript never ends with a user question: it is a seed
\* followed by complete pairs of question and reply.
C26_StoredTranscriptResumable ==
    PersistedTranscript(storage).t = "arr" /\ PersistedTranscript(storage).items # << >> =>
        PersistedTranscript(storage).items[Len(PersistedTranscript(storage).items)].role = "ai"

\* C28: after a successful analysis the candidate and the fileName in state
\* and in storage are those of the file the result was computed from.
C28_FileNameOfSubmittedFile ==
    lastOp = "analyzeResolve" /\ Truthy(state.result) =>
        /\ Truthy(state.file) => Str(state.file.name) = state.result.filename
        /\ state.fileName = state.result.filename
        /\ Field(loadState(storage), "fileName") = state.result.filename

Next ==
    \/ Reload
    \/ \E f \in Files : acceptFile(f)
    \/ removeFile
    \/ \E a \in AreaNames : typeArea(a)
    \/ clearAnalysis
    \/ handleAnalyze
    \/ \E i \in 1..MaxOutstanding, data \in AllPayloads : analyzeResolve(i, data)
    \/ \E i \in 1..MaxOutstanding, err \in Failures : analyzeReject(i, err)
    \/ \E d \in Drafts : typeQuestion(d)
    \/ \E q \in QuestionArgs : sendQuestion(q)
    \/ \E i \in 1..MaxOutstanding, data \in ChatPayloads : chatResolve(i, data)
    \/ \E i \in 1..MaxOutstanding : chatReject(i)

Spec == Init /\ [][Next]_vars

(***************************************************************************)
(* Every service call that was issued is answered: axios settles the       *)
(* promise of each request with a response or a failure.                   *)
(***************************************************************************)
AnalysisAnswered ==
    \/ \E i \in DOMAIN analysisCalls, data \in AllPayloads : analyzeResolve(i, data)
    \/ \E i \in DOMAIN analysisCalls, err \in Failures : analyzeReject(i, err)

ChatAnswered ==
    \/ \E i \in DOMAIN chatCalls, data \in ChatPayloads : chatResolve(i, data)
    \/ \E i \in DOMAIN chatCalls : chatReject(i)

\* the sessions followed to their end ask the suggested question and leave the
\* area input and the question box alone: no response handler reads either.
LiveNext ==
    \/ Reload
    \/ \E f \in Files : acceptFile(f)
    \/ removeFile
    \/ clearAnalysis
    \/ handleAnalyze
    \/ \E i \in 1..MaxOutstanding, data \in AllPayloads : analyzeResolve(i, data)
    \/ \E i \in 1..MaxOutstanding, err \in Failures : analyzeReject(i, err)
    \/ sendQuestion(Str(Suggestion))
    \/ \E i \in 1..MaxOutstanding, data \in ChatPayloads : chatResolve(i, data)
    \/ \E i \in 1..MaxOutstanding : chatReject(i)

LiveSpec ==
    Init /\ [][LiveNext]_vars /\ WF_vars(AnalysisAnswered) /\ WF_vars(ChatAnswered)

\* the page has just been loaded: the session before it is gone
PageLoaded == lastOp = "mount"

AssistantSpokeLast ==
    /\ state.messages # << >>
    /\ state.messages[Len(state.messages)].role = "ai"

\* C20: an analyzing session becomes ready or errored, and a pending question
\* is followed by a state without pending question whose transcript ends with
\* an assistant message, whatever the services answer, unless the page is
\* reloaded first.
C20_NeverStuck ==
    /\ state.analyzing ~> (Phase(state) \in {"ready", "errored"} \/ PageLoaded)
    /\ state.chatLoading ~> ((~state.chatLoading /\ AssistantSpokeLast) \/ PageLoaded)

C20_Witness ==
    /\ lastOp = "analyzeResolve"
    /\ Phase(state) = "errored"
    /\ state.error = TypeErrorMessage
    /\ state.result = Null
    /\ ~state.chatLoading

(***************************************************************************)
(* A session without anything to restore, followed together with its twin  *)
(* on a browser whose storage fails.                                       *)
(***************************************************************************)
PairInit ==
    \E sto \in InitialStorage :
        /\ InitialState(loadState(sto)) = InitialState(FailedLoad)
        /\ state = InitialState(loadState(sto))
        /\ storage = MountEffect(InitialState(loadState(sto)), sto)
        /\ analysisCalls = << >>
        /\ chatCalls = << >>
        /\ lastOp = "mount"
        /\ asked = -1
        /\ twin = InitialState(FailedLoad)
        /\ dashboard = DashboardInitial
        /\ dashCalls = << >>

PairNext ==
    \/ \E f \in Files : acceptFile(f)
    \/ removeFile
    \/ \E a \in AreaNames : typeArea(a)
    \/ clearAnalysis
    \/ handleAnalyze
    \/ \E i \in 1..MaxOutstanding, data \in AllPayloads : analyzeResolve(i, data)
    \/ \E i \in 1..MaxOutstanding, err \in Failures : analyzeReject(i, err)
    \/ \E d \in Drafts : typeQuestion(d)
    \/ \E q \in QuestionArgs : sendQuestion(q)
    \/ \E i \in 1..MaxOutstanding, data \in ChatPayloads : chatResolve(i, data)
    \/ \E i \in 1..MaxOutstanding : chatReject(i)

PairSpec == PairInit /\ [][PairNext]_vars

\* C21: the session whose storage fails on every access is in the same
\* in-memory state (candidate, result, transcript, phase, pending question,
\* error and the rest of the component state) as the session whose storage
\* works, after every sequence of user actions and service answers; a failed
\* write sets no error.
C21_BestEffortPersistence == twin = state

C21_Witness ==
    /\ lastOp = "chatResolve"
    /\ twin = state
    /\ Truthy(twin.result)
    /\ Len(twin.messages) = 3
    /\ loadState(storage) = Snapshot(state)

(***************************************************************************)
(* The seed selection on its own: one file analysed again and again, with  *)
(* response bodies on either side of every test of the selection.          *)
(***************************************************************************)
SeedNext ==
    \/ acceptFile(FileA)
    \/ handleAnalyze
    \/ \E i \in 1..MaxOutstanding, data \in SeedPayloads(FileA) : analyzeResolve(i, data)
    \/ clearAnalysis

SeedSpec == GateInit /\ [][SeedNext]_vars

\* the letters of "error" in either case
ErrorLetters == <<{"e", "E"}, {"r", "R"}, {"r", "R"}, {"o", "O"}, {"r", "R"}>>

\* the narrative the seeding policy takes verbatim: a text that is not empty,
\* is longer than 50 characters and does not begin with "error" in any case
PlausibleNarrative(data) ==
    /\ "analysis" \in DOMAIN data
    /\ data.analysis.t = "str"
    /\ data.analysis.s # << >>
    /\ Len(data.analysis.s) > 50
    /\ \E k \in 1..5 : data.analysis.s[k] \notin ErrorLetters[k]

\* the number under key of object o, 0 when o is no object or has no such key
NumberOr0(o, key) ==
    IF o.t = "obj" /\ key \in DOMAIN o /\ o[key].t = "num" THEN o[key].n ELSE 0

\* the object under key of object o, an object without keys in its absence
PartOf(o, key) ==
    IF o.t = "obj" /\ key \in DOMAIN o /\ o[key].t = "obj" THEN o[key] ELSE [t |-> "obj"]

\* the fixed-template summary with absent fields defaulted to 0
ExpectedTemplate(data) ==
    LET s == PartOf(data, "summary")
        res == PartOf(s, "residential")
        com == PartOf(s, "commercial")
    IN  <<"Analysis Complete", "\n", "\n", "Analyzed", " ">> \o data.filename.s
        \o <<" ", "-", " ", ToString(NumberOr0(s, "total_records")), " ",
              "total records.", "\n", "\n",
              "Residential:", " ", ToString(NumberOr0(res, "count")), " ",
              "houses  |  Avg Rs", ToString(NumberOr0(res, "mean")), ".00",
              "  |  Median Rs", ToString(NumberOr0(res, "median")), ".00", "\n",
              "Commercial:", " ", ToString(NumberOr0(com, "count")), " ",
              "properties  |  Avg Rs", ToString(NumberOr0(com, "mean")), ".00", "\n",
              "Anomalies:", " ", ToString(NumberOr0(s, "anomalies_count")), " ",
              "detected", "\n", "\n", "Ask me anything about the data!">>

\* C22: after a successful analysis the transcript is one assistant message:
\* the narrative verbatim if and only if it is non-empty, longer than 50
\* characters and does not start with "error" in any case, the fixed-template
\* summary with absent fields as 0 otherwise; its text is never empty.
C22_SeedingPolicy ==
    lastOp = "analyzeResolve" /\ Truthy(state.result) =>
        /\ Len(state.messages) = 1
        /\ state.messages[1].role = "ai"
        /\ state.messages[1].text.t = "str"
        /\ state.messages[1].text.s # << >>
        /\ state.messages[1].text.s =
               IF PlausibleNarrative(state.result)
               THEN state.result.analysis.s
               ELSE ExpectedTemplate(state.result)

C22_Witness ==
    /\ lastOp = "analyzeResolve"
    /\ Field(state.result, "analysis") = Str(<<"E", "R", "R", "O", "R">> \o Repeat("x", NarrativeMinLen))
    /\ Field(Field(state.result, "summary"), "commercial") = Null
    /\ state.messages[1].text.s = ExpectedTemplate(state.result)

(***************************************************************************)
(* A page that restored a result: every analysis on it is a re-analysis.   *)
(***************************************************************************)
RerunInit == Init /\ Truthy(state.result)

RerunSpec == RerunInit /\ [][PairNext]_vars

IsFailedRunStep ==
    \/ lastOp' = "analyzeReject"
    \/ lastOp' = "analyzeResolve" /\ ~Truthy(state'.result)

\* C27 as stated: a failed re-analysis leaves storage as it was, and storage
\* still holds the earlier snapshot, so that a reload would start with the
\* earlier result.
C27_ReloadAfterFailureResumes ==
    [][IsFailedRunStep =>
          /\ storage' = storage
          /\ Truthy(InitialState(loadState(storage')).result)]_vars

\* C27: the start of an analysis and its failure leave storage as it was; the
\* reset that had to precede the re-analysis has removed the earlier snapshot,
\* so a reload after the failure starts without result and transcript.
C27_FailedRunKeepsStorage ==
    [][lastOp' = "handleAnalyze" \/ IsFailedRunStep =>
          /\ storage' = storage
          /\ storage' = NoItem
          /\ state'.result = Null
          /\ InitialState(loadState(storage')).result = Null
          /\ InitialState(loadState(storage')).messages = << >>]_vars

C27_Witness ==
    /\ lastOp = "analyzeReject"
    /\ Phase(state) = "errored"
    /\ storage = NoItem
    /\ Phase(InitialState(loadState(storage))) = "idle"

(***************************************************************************)
(* The Dashboard (src/src/components/BillTable.js): sync, load and clear.  *)
(* A request in dashCalls is a triggerSync ("sync"), the pair of           *)
(* fetchBills and fetchStats awaited by Promise.all ("load"), or a         *)
(* clearAllData ("clear").                                                 *)
(***************************************************************************)
Bill(i) == [t |-> "obj", House_ID |-> Str(<<"H", ToString(i)>>), Owner_Name |-> Str(<<"owner">>)]

\* what fetchBills may deliver as billRes.data: a list of bills, a body without
\* data key, an empty body
BillBodies ==
    { [t |-> "obj", data |-> Arr(<< >>)],
      [t |-> "obj", data |-> Arr(<<Bill(1)>>)],
      [t |-> "obj", data |-> Arr(<<Bill(1), Bill(2)>>)],
      [t |-> "obj"],
      Null }

\* what fetchStats may deliver as statRes.data
StatBodies ==
    { [t |-> "obj", total |-> Num(1)], [t |-> "obj", total |-> Num(2)], Null }

AnalyzerIdle ==
    UNCHANGED <<state, storage, analysisCalls, chatCalls, asked, twin>>

\* loadData, the catch and finally blocks, and the finally block of the
\* handleSync that awaited it
loadFailedState(d) == [d EXCEPT !.loading = FALSE, !.syncing = FALSE]

\* loadData after Promise.all has resolved, and the finally blocks
loadDoneState(d, billData, statData) ==
    IF billData.t \in {"null", "undefined"} THEN loadFailedState(d)
    ELSE [d EXCEPT !.bills = Or(Field(billData, "data"), Arr(<< >>)),
                   !.stats = statData,
                   !.hasSynced = TRUE,
                   !.loading = FALSE, !.syncing = FALSE]

\* handleClear after clearAllData has resolved
clearDoneState(d) ==
    [d EXCEPT !.bills = Arr(<< >>), !.stats = Null, !.hasSynced = FALSE]

\* the user clicks the sync button; SyncControl disables it while syncing
handleSync ==
    /\ ~dashboard.syncing
    /\ Len(dashCalls) < MaxOutstanding
    /\ dashboard' = [dashboard EXCEPT !.syncing = TRUE]
    /\ dashCalls' = Append(dashCalls, "sync")
    /\ lastOp' = "handleSync"
    /\ AnalyzerIdle

\* triggerSync resolves: handleSync goes on with loadData
syncResolve(i) ==
    /\ i \in DOMAIN dashCalls
    /\ dashCalls[i] = "sync"
    /\ dashboard' = [dashboard EXCEPT !.loading = TRUE]
    /\ dashCalls' = [dashCalls EXCEPT ![i] = "load"]
    /\ lastOp' = "syncResolve"
    /\ AnalyzerIdle

\* triggerSync rejects: alert, then the finally block
syncReject(i) ==
    /\ i \in DOMAIN dashCalls
    /\ dashCalls[i] = "sync"
    /\ dashboard' = [dashboard EXCEPT !.syncing = FALSE]
    /\ dashCalls' = Without(dashCalls, i)
    /\ lastOp' = "syncReject"
    /\ AnalyzerIdle

\* fetchBills and fetchStats have both resolved
loadResolve(i, billData, statData) ==
    /\ i \in DOMAIN dashCalls
    /\ dashCalls[i] = "load"
    /\ dashboard' = loadDoneState(dashboard, billData, statData)
    /\ dashCalls' = Without(dashCalls, i)
    /\ lastOp' = "loadResolve"
    /\ AnalyzerIdle

\* fetchBills or fetchStats has rejected
loadReject(i) ==
    /\ i \in DOMAIN dashCalls
    /\ dashCalls[i] = "load"
    /\ dashboard' = loadFailedState(dashboard)
    /\ dashCalls' = Without(dashCalls, i)
    /\ lastOp' = "loadReject"
    /\ AnalyzerIdle

\* the user clicks Clear Data, rendered only when hasSynced, and answers the
\* confirmation
handleClear(confirmed) ==
    /\ dashboard.hasSynced
    /\ Len(dashCalls) < MaxOutstanding
    /\ dashCalls' = IF confirmed THEN Append(dashCalls, "clear") ELSE dashCalls
    /\ lastOp' = IF confirmed THEN "handleClear" ELSE "handleClear.cancel"
    /\ UNCHANGED dashboard
    /\ AnalyzerIdle

\* clearAllData resolves
clearResolve(i) ==
    /\ i \in DOMAIN dashCalls
    /\ dashCalls[i] = "clear"
    /\ dashboard' = clearDoneState(dashboard)
    /\ dashCalls' = Without(dashCalls, i)
    /\ lastOp' = "clearResolve"
    /\ AnalyzerIdle

\* clearAllData rejects: alert
clearReject(i) ==
    /\ i \in DOMAIN dashCalls
    /\ dashCalls[i] = "clear"
    /\ dashCalls' = Without(dashCalls, i)
    /\ lastOp' = "clearReject"
    /\ UNCHANGED dashboard
    /\ AnalyzerIdle

DashNext ==
    \/ handleSync
    \/ \E i \in 1..MaxOutstanding : syncResolve(i)
    \/ \E i \in 1..MaxOutstanding : syncReject(i)
    \/ \E i \in 1..MaxOutstanding, b \in BillBodies, st \in StatBodies : loadResolve(i, b, st)
    \/ \E i \in 1..MaxOutstanding : loadReject(i)
    \/ \E c \in BOOLEAN : handleClear(c)
    \/ \E i \in 1..MaxOutstanding : clearResolve(i)
    \/ \E i \in 1..MaxOutstanding : clearReject(i)

DashSpec == GateInit /\ [][DashNext]_vars

DashboardCleared ==
    /\ dashboard.bills = Arr(<< >>)
    /\ dashboard.stats = Null
    /\ ~dashboard.hasSynced

\* C29: a dashboard that is not synced shows no bills and no stats, and after
\* a clear has succeeded the dashboard stays cleared until the user triggers a
\* new sync, whatever was in flight when the clear was issued.
C29_ClearedUntilNewSync ==
    /\ [](~dashboard.hasSynced => dashboard.bills = Arr(<< >>) /\ dashboard.stats = Null)
    /\ [][lastOp = "clearResolve" /\ lastOp' # "handleSync" => DashboardCleared']_vars

====
